---- MODULE Spec2Model ----
(***************************************************************************)
(* Reminder service: families, reminders with a recurrence pattern, and    *)
(* completion events, served by HTTP handlers over one Storage backend     *)
(* (memory, file or SQLite).  Identifiers "fam3", "rem1", "cev2" are the   *)
(* pairs <<"fam", 3>>, <<"rem", 1>>, <<"cev", 2>>; timestamps are whole    *)
(* seconds, 0 standing for the nil pointer / zero time.                    *)
(***************************************************************************)
EXTENDS Integers, Sequences, FiniteSets, TLC

VARIABLES backend,                   \* which Storage implementation Store is
          families,                  \* stored families, by id
          reminders,                 \* stored reminders, by id (SQLite: rows)
          completionEvents,          \* stored completion events, by id
          familyIDCounter,
          reminderIDCounter,
          completionEventIDCounter,
          clock,                     \* the last instant time.Now() returned
          lastReq,                   \* the request handled last
          resp,                      \* and the response written for it
          procs                      \* the handlers running concurrently

vars == <<backend, families, reminders, completionEvents, familyIDCounter,
          reminderIDCounter, completionEventIDCounter, clock, lastReq, resp,
          procs>>

-----------------------------------------------------------------------------
(* Bounds of the model *)

MaxTime == 2
MaxReminders == 1
MaxCounter == 2

-----------------------------------------------------------------------------
(* Values *)

Backends == {"memory", "file", "sqlite"}

NoTime == 0

NoID == <<"", 0>>
FamID(n) == <<"fam", n>>
RemID(n) == <<"rem", n>>
CevID(n) == <<"cev", n>>

\* The end date SQLiteStorage writes for "no end date".
FarFuture == "2099-12-31T23:59:59Z"

\* Strings time.Parse(time.RFC3339, s) accepts, among those the model uses.
RFC3339Strings == {"2025-05-21T10:00:00Z", "2026-01-01T12:00:00Z", FarFuture}
ParsesRFC3339(s) == s \in RFC3339Strings

Weekdays == {"monday", "tuesday", "wednesday", "thursday", "friday",
             "saturday", "sunday"}

\* strings.ToLower on the day names the model uses
ToLower(s) ==
    CASE s = "Monday" -> "monday"
      [] s = "MONDAY" -> "monday"
      [] s = "Friday" -> "friday"
      [] s = "Sunday" -> "sunday"
      [] s = "Tuesday" -> "tuesday"
      [] s = "Wednesday" -> "wednesday"
      [] s = "Thursday" -> "thursday"
      [] s = "Saturday" -> "saturday"
      [] OTHER -> s

isValidWeekday(day) == ToLower(day) \in Weekdays

Range(s) == {s[i] : i \in DOMAIN s}

Put(f, k, v) == [x \in (DOMAIN f) \cup {k} |-> IF x = k THEN v ELSE f[x]]
Remove(f, k) == [x \in (DOMAIN f) \ {k} |-> f[x]]

RECURSIVE SetMax(_)
SetMax(S) ==
    IF S = {} THEN 0
    ELSE LET x == CHOOSE y \in S : TRUE
             m == SetMax(S \ {x})
         IN IF x > m THEN x ELSE m

-----------------------------------------------------------------------------
(* internal/reminder *)

RecurrencePattern(type, days, date, endDate) ==
    [type |-> type, days |-> days, date |-> date, end_date |-> endDate]

NewReminder(id, title, description, dueDate, familyID, familyMember, recurrence) ==
    [id |-> id, title |-> title, description |-> description,
     due_date |-> dueDate, recurrence |-> recurrence,
     completed |-> FALSE, completed_at |-> NoTime,
     family_id |-> familyID, family_member |-> familyMember]

IsRecurring(r) == r.recurrence.type # "once"

MarkCompleted_NoTimestamp(r, now) == [r EXCEPT !.completed = TRUE]

MarkCompleted(r, now) == [r EXCEPT !.completed = TRUE, !.completed_at = now]

-----------------------------------------------------------------------------
(* internal/storage: the Storage interface over the three backends.  A     *)
(* store st is the record of the backend's six fields.                     *)

Store ==
    [families |-> families, reminders |-> reminders,
     completionEvents |-> completionEvents,
     familyIDCounter |-> familyIDCounter,
     reminderIDCounter |-> reminderIDCounter,
     completionEventIDCounter |-> completionEventIDCounter]

NewStorage ==
    [families |-> <<>>, reminders |-> <<>>, completionEvents |-> <<>>,
     familyIDCounter |-> 0, reminderIDCounter |-> 0,
     completionEventIDCounter |-> 0]

extractNumericID(id, prefix) == IF id[1] = prefix THEN id[2] ELSE 0

\* the counter FileStorage recomputes after each save: the largest numeric id
MaxNumericID(m, prefix) == SetMax({extractNumericID(id, prefix) : id \in DOMAIN m})

\* SQLiteStorage.CreateReminder writes an empty end date as the far-future date
SQLiteRow(r) ==
    [r EXCEPT !.recurrence.end_date = IF @ = "" THEN FarFuture ELSE @]

\* SQLiteStorage.GetReminder turns the far-future date back into ""
SQLiteScan(row) ==
    [row EXCEPT !.recurrence.end_date = IF @ = FarFuture THEN "" ELSE @]

HasFamily(st, id) == id \in DOMAIN st.families
GetFamily(st, id) == st.families[id]

\* SQLiteStorage.CreateFamily is a plain INSERT: a stored id is an error
CreateFamilyFails(st, f) == backend = "sqlite" /\ HasFamily(st, f.id)

CreateFamily(st, f) ==
    LET fs == Put(st.families, f.id, f)
    IN CASE CreateFamilyFails(st, f) -> st
         [] backend = "file" ->
              [st EXCEPT !.families = fs,
                         !.familyIDCounter = MaxNumericID(fs, "fam")]
         [] OTHER -> [st EXCEPT !.families = fs]

DeleteFamily_Cascade(st, id) ==
    LET fs == Remove(st.families, id)
        rs == [k \in {x \in DOMAIN st.reminders : st.reminders[x].family_id # id}
                  |-> st.reminders[k]]
    IN IF backend = "file"
       THEN [st EXCEPT !.families = fs, !.reminders = rs,
                       !.familyIDCounter = MaxNumericID(fs, "fam")]
       ELSE [st EXCEPT !.families = fs, !.reminders = rs]

\* delete(families, id) / DELETE FROM families WHERE id = ?: no error when
\* the id is not stored
DeleteFamily(st, id) ==
    LET fs == Remove(st.families, id)
    IN IF backend = "file"
       THEN [st EXCEPT !.families = fs,
                       !.familyIDCounter = MaxNumericID(fs, "fam")]
       ELSE [st EXCEPT !.families = fs]

CreateReminder(st, r) ==
    CASE backend = "file" ->
           LET rs == Put(st.reminders, r.id, r)
           IN [st EXCEPT !.reminders = rs,
                         !.reminderIDCounter = MaxNumericID(rs, "rem")]
      [] backend = "sqlite" ->
           [st EXCEPT !.reminders = Put(@, r.id, SQLiteRow(r))]
      [] OTHER ->
           [st EXCEPT !.reminders = Put(@, r.id, r)]

HasReminder(st, id) == id \in DOMAIN st.reminders
GetReminder(st, id) ==
    IF backend = "sqlite" THEN SQLiteScan(st.reminders[id]) ELSE st.reminders[id]

DeleteReminder(st, id) ==
    LET rs == Remove(st.reminders, id)
    IN IF backend = "file"
       THEN [st EXCEPT !.reminders = rs,
                       !.reminderIDCounter = MaxNumericID(rs, "rem")]
       ELSE [st EXCEPT !.reminders = rs]

CreateCompletionEvent(st, e) ==
    LET es == Put(st.completionEvents, e.id, e)
    IN IF backend = "file"
       THEN [st EXCEPT !.completionEvents = es,
                       !.completionEventIDCounter = MaxNumericID(es, "cev")]
       ELSE [st EXCEPT !.completionEvents = es]

HasCompletionEvent(st, id) == id \in DOMAIN st.completionEvents
GetCompletionEvent(st, id) == st.completionEvents[id]

ListCompletionEvents_All(st, reminderID) == Range(st.completionEvents)

ListCompletionEvents(st, reminderID) ==
    {e \in Range(st.completionEvents) : e.reminder_id = reminderID}

DeleteCompletionEvent(st, id) ==
    LET es == Remove(st.completionEvents, id)
    IN IF backend = "file"
       THEN [st EXCEPT !.completionEvents = es,
                       !.completionEventIDCounter = MaxNumericID(es, "cev")]
       ELSE [st EXCEPT !.completionEvents = es]

GetFamilyIDCounter(st) == st.familyIDCounter
SetFamilyIDCounter(st, n) == [st EXCEPT !.familyIDCounter = n]
GetReminderIDCounter(st) == st.reminderIDCounter
SetReminderIDCounter(st, n) == [st EXCEPT !.reminderIDCounter = n]
GetCompletionEventIDCounter(st) == st.completionEventIDCounter
SetCompletionEventIDCounter(st, n) == [st EXCEPT !.completionEventIDCounter = n]

\* GenerateXID: the store with the counter advanced, and the id minted
GenerateFamilyID(st) ==
    LET counter == GetFamilyIDCounter(st) + 1
    IN [st |-> SetFamilyIDCounter(st, counter), id |-> FamID(counter)]

GenerateReminderID(st) ==
    LET counter == GetReminderIDCounter(st) + 1
    IN [st |-> SetReminderIDCounter(st, counter), id |-> RemID(counter)]

GenerateCompletionEventID(st) ==
    LET counter == GetCompletionEventIDCounter(st) + 1
    IN [st |-> SetCompletionEventIDCounter(st, counter), id |-> CevID(counter)]

-----------------------------------------------------------------------------
(* internal/handlers.  A PATCH body is a JSON object: for each key the     *)
(* model keeps whether it is absent, holds a value of the type the handler *)
(* asserts ("ok"), or holds a value of another type ("bad").  Go ranges    *)
(* over the decoded map in an unspecified order: `order` is the order in   *)
(* which this request's keys are visited.                                  *)

PatchKeys == {"title", "description", "due_date", "completed", "recurrence",
              "family_member", "other"}

Absent(dflt) == [kind |-> "absent", val |-> dflt]
Bad(dflt) == [kind |-> "bad", val |-> dflt]
Ok(v) == [kind |-> "ok", val |-> v]

OnceP == RecurrencePattern("once", <<>>, 0, "")

NoPatch ==
    [title |-> Absent(""), description |-> Absent(""), due_date |-> Absent(""),
     completed |-> Absent(FALSE), recurrence |-> Absent(OnceP),
     family_member |-> Absent(""), other |-> Absent("")]

Present(patch) == {k \in PatchKeys : patch[k].kind # "absent"}

Orders(S) ==
    {o \in [1..Cardinality(S) -> S] : \A i, j \in 1..Cardinality(S) : o[i] = o[j] => i = j}

CompleteRecurring_SetsCompleted(r, b, now) ==
    [r EXCEPT !.completed_at = IF b THEN now ELSE NoTime, !.completed = b]

CompleteRecurring_KeepsCompletedAt(r, b, now) ==
    [r EXCEPT !.completed_at = IF b THEN (IF @ = NoTime THEN now ELSE @) ELSE NoTime,
              !.completed = FALSE]

\* case "completed", recurring branch
CompleteRecurring(r, b, now) ==
    [r EXCEPT !.completed_at = IF b THEN now ELSE NoTime, !.completed = FALSE]

CompleteOnce_KeepsCompletedAt(r, b, now) ==
    IF b /\ ~r.completed THEN MarkCompleted(r, now)
    ELSE IF ~b /\ r.completed
         THEN [r EXCEPT !.completed = FALSE]
         ELSE r

CompleteOnce_RefreshesCompletedAt(r, b, now) ==
    IF b THEN MarkCompleted(r, now)
    ELSE IF ~b /\ r.completed
         THEN [r EXCEPT !.completed = FALSE, !.completed_at = NoTime]
         ELSE r

\* case "completed", non-recurring branch
CompleteOnce(r, b, now) ==
    IF b /\ ~r.completed THEN MarkCompleted(r, now)
    ELSE IF ~b /\ r.completed
         THEN [r EXCEPT !.completed = FALSE, !.completed_at = NoTime]
         ELSE r

\* whether the "completed" case sets updated
CompletedUpdates(r, b) ==
    IsRecurring(r) \/ (b /\ ~r.completed) \/ (~b /\ r.completed)

PatchCompletionEvent_ByTitle(st, r, now) ==
    [id |-> CevID(GetCompletionEventIDCounter(st) + 1),
     reminder_id |-> r.id,
     completed_by |-> r.title,
     completed_at |-> now]

\* the completion event the "completed" case builds
PatchCompletionEvent(st, r, now) ==
    [id |-> CevID(GetCompletionEventIDCounter(st) + 1),
     reminder_id |-> r.id,
     completed_by |-> r.family_member,
     completed_at |-> now]

PatchCompleted_EventOnTransition(h, v, now, cevFails) ==
    IF v.kind # "ok" THEN h
    ELSE LET r1 == IF IsRecurring(h.r) THEN CompleteRecurring(h.r, v.val, now)
                   ELSE CompleteOnce(h.r, v.val, now)
             upd == h.updated \/ CompletedUpdates(h.r, v.val)
         IN IF ~CompletedUpdates(h.r, v.val) THEN h
            ELSE IF cevFails
            THEN [h EXCEPT !.r = r1, !.updated = upd, !.failed = TRUE]
            ELSE [h EXCEPT !.r = r1, !.updated = upd,
                           !.st = CreateCompletionEvent(h.st, PatchCompletionEvent(h.st, r1, now))]

\* case "completed".  h is the handler's frame: the reminder r it works on,
\* the updated flag, the store, and whether it has returned with an error.
PatchCompleted(h, v, now, cevFails) ==
    IF v.kind # "ok" THEN h
    ELSE LET r1 == IF IsRecurring(h.r) THEN CompleteRecurring(h.r, v.val, now)
                   ELSE CompleteOnce(h.r, v.val, now)
             upd == h.updated \/ CompletedUpdates(h.r, v.val)
         IN IF cevFails
            THEN [h EXCEPT !.r = r1, !.updated = upd, !.failed = TRUE]
            ELSE [h EXCEPT !.r = r1, !.updated = upd,
                           !.st = CreateCompletionEvent(h.st, PatchCompletionEvent(h.st, r1, now))]

PatchDueDate(h, v) ==
    IF v.kind # "ok" THEN h
    ELSE IF v.val = "" \/ ParsesRFC3339(v.val)
         THEN [h EXCEPT !.r.due_date = v.val, !.updated = TRUE]
         ELSE h

PatchKey_TitleOfAnyType(h, k, v, now, cevFails) ==
    CASE k = "title" ->
           [h EXCEPT !.r.title = v.val, !.updated = TRUE]
      [] k = "description" ->
           IF v.kind = "ok" THEN [h EXCEPT !.r.description = v.val, !.updated = TRUE] ELSE h
      [] k = "due_date" -> PatchDueDate(h, v)
      [] k = "completed" -> PatchCompleted(h, v, now, cevFails)
      [] k = "recurrence" ->
           IF v.kind = "ok" THEN [h EXCEPT !.r.recurrence = v.val, !.updated = TRUE] ELSE h
      [] k = "family_member" ->
           IF v.kind = "ok" THEN [h EXCEPT !.r.family_member = v.val, !.updated = TRUE] ELSE h
      [] OTHER -> h

PatchKey_TitleClearsDueDate(h, k, v, now, cevFails) ==
    CASE k = "title" ->
           IF v.kind = "ok"
           THEN [h EXCEPT !.r.title = v.val, !.r.due_date = "", !.updated = TRUE]
           ELSE h
      [] k = "description" ->
           IF v.kind = "ok" THEN [h EXCEPT !.r.description = v.val, !.updated = TRUE] ELSE h
      [] k = "due_date" -> PatchDueDate(h, v)
      [] k = "completed" -> PatchCompleted(h, v, now, cevFails)
      [] k = "recurrence" ->
           IF v.kind = "ok" THEN [h EXCEPT !.r.recurrence = v.val, !.updated = TRUE] ELSE h
      [] k = "family_member" ->
           IF v.kind = "ok" THEN [h EXCEPT !.r.family_member = v.val, !.updated = TRUE] ELSE h
      [] OTHER -> h

PatchKey(h, k, v, now, cevFails) ==
    CASE k = "title" ->
           IF v.kind = "ok" THEN [h EXCEPT !.r.title = v.val, !.updated = TRUE] ELSE h
      [] k = "description" ->
           IF v.kind = "ok" THEN [h EXCEPT !.r.description = v.val, !.updated = TRUE] ELSE h
      [] k = "due_date" -> PatchDueDate(h, v)
      [] k = "completed" -> PatchCompleted(h, v, now, cevFails)
      [] k = "recurrence" ->
           IF v.kind = "ok" THEN [h EXCEPT !.r.recurrence = v.val, !.updated = TRUE] ELSE h
      [] k = "family_member" ->
           IF v.kind = "ok" THEN [h EXCEPT !.r.family_member = v.val, !.updated = TRUE] ELSE h
      [] OTHER -> h

RECURSIVE PatchLoop(_, _, _, _, _)
PatchLoop(h, patch, order, now, cevFails) ==
    IF order = <<>> \/ h.failed THEN h
    ELSE PatchLoop(PatchKey(h, Head(order), patch[Head(order)], now, cevFails),
                   patch, Tail(order), now, cevFails)

\* MemoryStorage.GetReminder returns the stored pointer: what the handler
\* assigns to r's fields is assigned in the store.
Aliased(st, r) ==
    IF backend = "memory" THEN [st EXCEPT !.reminders = Put(@, r.id, r)] ELSE st

SetStore(st) ==
    /\ families' = st.families
    /\ reminders' = st.reminders
    /\ completionEvents' = st.completionEvents
    /\ familyIDCounter' = st.familyIDCounter
    /\ reminderIDCounter' = st.reminderIDCounter
    /\ completionEventIDCounter' = st.completionEventIDCounter

NoBody == [none |-> TRUE]
Response(status, body) == [status |-> status, body |-> body]

\* What lastReq keeps of a request: the route, the id it names, and for a
\* PATCH the keys of the body, those of them whose value passes the handler's
\* type assertion, the boolean under "completed" ("none" when the body holds
\* none) and whether the handler called Store.CreateReminder; for a POST
\* /reminders the decoded body.
Request(op, id) ==
    [op |-> op, id |-> id, keys |-> {}, ok |-> {}, completed |-> "none",
     wrote |-> FALSE, body |-> NoBody]

\* the keys of the switch whose value has the type the case asserts
TypeCompatible(patch) ==
    {k \in PatchKeys \ {"other"} : patch[k].kind = "ok"}

CompletedOf(patch) ==
    IF patch.completed.kind # "ok" THEN "none"
    ELSE IF patch.completed.val THEN "true" ELSE "false"

UpdateReminderHandler_WritesAfterFailure(id, patch, order, cevFails) ==
    LET usesNow == patch.completed.kind = "ok"
        now == clock + 1
        req == [Request("PATCH", id) EXCEPT !.keys = Present(patch),
                                            !.ok = TypeCompatible(patch),
                                            !.completed = CompletedOf(patch)]
    IN /\ order \in Orders(Present(patch))
       /\ usesNow => clock < MaxTime
       /\ cevFails => usesNow /\ backend # "memory"
       /\ IF ~HasReminder(Store, id)
          THEN /\ lastReq' = req
               /\ resp' = Response(404, NoBody)
               /\ UNCHANGED <<backend, families, reminders, completionEvents,
                              familyIDCounter, reminderIDCounter,
                              completionEventIDCounter, clock>>
          ELSE LET h0 == [r |-> GetReminder(Store, id), updated |-> FALSE,
                          st |-> Store, failed |-> FALSE]
                   h == PatchLoop(h0, patch, order, now, cevFails)
                   wrote == h.updated
               IN /\ SetStore(IF wrote THEN CreateReminder(h.st, h.r)
                              ELSE Aliased(h.st, h.r))
                  /\ clock' = IF usesNow THEN now ELSE clock
                  /\ lastReq' = [req EXCEPT !.wrote = wrote]
                  /\ resp' = IF h.failed THEN Response(500, NoBody)
                             ELSE Response(200, h.r)
                  /\ UNCHANGED backend

UpdateReminderHandler(id, patch, order, cevFails) ==
    LET usesNow == patch.completed.kind = "ok"
        now == clock + 1
        req == [Request("PATCH", id) EXCEPT !.keys = Present(patch),
                                            !.ok = TypeCompatible(patch),
                                            !.completed = CompletedOf(patch)]
    IN /\ order \in Orders(Present(patch))
       /\ usesNow => clock < MaxTime
       /\ cevFails => usesNow /\ backend # "memory"
       /\ IF ~HasReminder(Store, id)
          THEN /\ lastReq' = req
               /\ resp' = Response(404, NoBody)
               /\ UNCHANGED <<backend, families, reminders, completionEvents,
                              familyIDCounter, reminderIDCounter,
                              completionEventIDCounter, clock>>
          ELSE LET h0 == [r |-> GetReminder(Store, id), updated |-> FALSE,
                          st |-> Store, failed |-> FALSE]
                   h == PatchLoop(h0, patch, order, now, cevFails)
                   wrote == h.updated /\ ~h.failed
               IN /\ SetStore(IF wrote THEN CreateReminder(h.st, h.r)
                              ELSE Aliased(h.st, h.r))
                  /\ clock' = IF usesNow THEN now ELSE clock
                  /\ lastReq' = [req EXCEPT !.wrote = wrote]
                  /\ resp' = IF h.failed THEN Response(500, NoBody)
                             ELSE Response(200, h.r)
                  /\ UNCHANGED backend

CreateFamilyHandler(body) ==
    LET g == GenerateFamilyID(Store)
        f == [id |-> g.id, name |-> body.name, members |-> body.members]
    IN /\ SetStore(CreateFamily(g.st, f))
       /\ lastReq' = Request("POST /families", NoID)
       /\ resp' = IF CreateFamilyFails(g.st, f) THEN Response(500, NoBody)
                  ELSE Response(201, f)
       /\ UNCHANGED <<backend, clock>>

ValidRecurrence_AnyDate(rec) ==
    /\ CASE rec.type = "once" -> TRUE
         [] rec.type = "daily" -> TRUE
         [] rec.type = "weekly" ->
              /\ Len(rec.days) # 0
              /\ \A i \in DOMAIN rec.days : isValidWeekday(rec.days[i])
         [] rec.type = "monthly" -> TRUE
         [] OTHER -> FALSE
    /\ rec.end_date # "" => ParsesRFC3339(rec.end_date)

\* the recurrence validation of CreateReminderHandler
ValidRecurrence(rec) ==
    /\ CASE rec.type = "once" -> TRUE
         [] rec.type = "daily" -> TRUE
         [] rec.type = "weekly" ->
              /\ Len(rec.days) # 0
              /\ \A i \in DOMAIN rec.days : isValidWeekday(rec.days[i])
         [] rec.type = "monthly" -> ~(rec.date < 1 \/ rec.date > 31)
         [] OTHER -> FALSE
    /\ rec.end_date # "" => ParsesRFC3339(rec.end_date)

CreateReminderAccepts_AnyMember(st, body) ==
    LET rec == IF body.recurrence.type = ""
               THEN [body.recurrence EXCEPT !.type = "once"]
               ELSE body.recurrence
    IN /\ body.due_date # "" => ParsesRFC3339(body.due_date)
       /\ ~(body.family_id = NoID \/ body.family_member = "")
       /\ HasFamily(st, body.family_id)
       /\ ValidRecurrence(rec)

CreateReminderAccepts(st, body) ==
    LET rec == IF body.recurrence.type = ""
               THEN [body.recurrence EXCEPT !.type = "once"]
               ELSE body.recurrence
    IN /\ body.due_date # "" => ParsesRFC3339(body.due_date)
       /\ ~(body.family_id = NoID \/ body.family_member = "")
       /\ HasFamily(st, body.family_id)
       /\ body.family_member \in Range(GetFamily(st, body.family_id).members)
       /\ ValidRecurrence(rec)

CreateReminderHandler(body) ==
    LET rec == IF body.recurrence.type = ""
               THEN [body.recurrence EXCEPT !.type = "once"]
               ELSE body.recurrence
        g == GenerateReminderID(Store)
        re == NewReminder(g.id, body.title, body.description, body.due_date,
                          body.family_id, body.family_member, rec)
    IN /\ reminderIDCounter < MaxReminders
       /\ lastReq' = [Request("POST /reminders", NoID) EXCEPT !.body = body]
       /\ IF CreateReminderAccepts(Store, body)
          THEN /\ SetStore(CreateReminder(g.st, re))
               /\ resp' = Response(201, re)
          ELSE /\ resp' = Response(400, NoBody)
               /\ UNCHANGED <<families, reminders, completionEvents,
                              familyIDCounter, reminderIDCounter,
                              completionEventIDCounter>>
       /\ UNCHANGED <<backend, clock>>

CreateCompletionEventHandler(body) ==
    LET g == IF body.id = NoID THEN GenerateCompletionEventID(Store)
             ELSE [st |-> Store, id |-> body.id]
        rejected == body.reminder_id = NoID \/ body.completed_by = ""
        usesNow == ~rejected /\ body.completed_at = NoTime
        now == clock + 1
        e == [id |-> g.id, reminder_id |-> body.reminder_id,
              completed_by |-> body.completed_by,
              completed_at |-> IF usesNow THEN now ELSE body.completed_at]
    IN /\ usesNow => clock < MaxTime
       /\ body.id = NoID => completionEventIDCounter < MaxTime
       /\ lastReq' = Request("POST /completion-events", body.id)
       /\ IF rejected
          THEN /\ SetStore(g.st)
               /\ resp' = Response(400, NoBody)
          ELSE /\ SetStore(CreateCompletionEvent(g.st, e))
               /\ resp' = Response(201, e)
       /\ clock' = IF usesNow THEN now ELSE clock
       /\ UNCHANGED backend

DeleteCompletionEventHandler(id) ==
    /\ SetStore(DeleteCompletionEvent(Store, id))
    /\ lastReq' = Request("DELETE /completion-events", id)
    /\ resp' = Response(204, NoBody)
    /\ UNCHANGED <<backend, clock>>

-----------------------------------------------------------------------------
(* Handlers running concurrently.  net/http serves each request on its own *)
(* goroutine; the handlers take no lock of their own, so two of them       *)
(* interleave between their calls of the Storage methods, each of which    *)
(* holds the storage mutex for its own duration only.                      *)

Procs == {1, 2}

NoReminder == NewReminder(NoID, "", "", "", NoID, "", OnceP)

\* a goroutine that is serving no request
IdleProc ==
    [pc |-> "idle", id |-> NoID, patch |-> NoPatch, order |-> <<>>,
     seen |-> NoReminder, counter |-> 0, now |-> NoTime]

\* the counter GenerateFamilyID / GenerateReminderID /
\* GenerateCompletionEventID reads and sets, by the prefix of the id
GetCounter(st, prefix) ==
    CASE prefix = "fam" -> GetFamilyIDCounter(st)
      [] prefix = "rem" -> GetReminderIDCounter(st)
      [] OTHER -> GetCompletionEventIDCounter(st)

SetCounter(st, prefix, n) ==
    CASE prefix = "fam" -> SetFamilyIDCounter(st, n)
      [] prefix = "rem" -> SetReminderIDCounter(st, n)
      [] OTHER -> SetCompletionEventIDCounter(st, n)

\* GenerateXID up to its read of the counter: counter := Get...() + 1
GenerateBegin(p, prefix) ==
    /\ procs[p].pc = "idle"
    /\ GetCounter(Store, prefix) < MaxCounter
    /\ procs' = [procs EXCEPT ![p] =
                    [IdleProc EXCEPT !.pc = "generating", !.id = <<prefix, 0>>,
                                     !.counter = GetCounter(Store, prefix) + 1]]
    /\ UNCHANGED <<backend, families, reminders, completionEvents,
                   familyIDCounter, reminderIDCounter, completionEventIDCounter,
                   clock, lastReq, resp>>

\* GenerateXID from there: Set...(counter); return the formatted id
GenerateEnd(p) ==
    LET prefix == procs[p].id[1]
        counter == procs[p].counter
    IN /\ procs[p].pc = "generating"
       /\ SetStore(SetCounter(Store, prefix, counter))
       /\ procs' = [procs EXCEPT ![p] =
                       [@ EXCEPT !.pc = "generated", !.id = <<prefix, counter>>]]
       /\ UNCHANGED <<backend, clock, lastReq, resp>>

\* UpdateReminderHandler up to the return of Store.GetReminder.  On
\* MemoryStorage the reminder returned is the stored struct itself, which two
\* handlers would then assign without synchronisation; the steps are taken
\* on the backends that hand each handler its own copy.
UpdateReminderBegin(p, id, patch, order) ==
    /\ procs[p].pc = "idle"
    /\ backend # "memory"
    /\ HasReminder(Store, id)
    /\ order \in Orders(Present(patch))
    /\ procs' = [procs EXCEPT ![p] =
                    [IdleProc EXCEPT !.pc = "patching", !.id = id,
                                     !.patch = patch, !.order = order,
                                     !.seen = GetReminder(Store, id)]]
    /\ UNCHANGED <<backend, families, reminders, completionEvents,
                   familyIDCounter, reminderIDCounter, completionEventIDCounter,
                   clock, lastReq, resp>>

\* the reminder the patch loop leaves when it starts from reminder r at
\* instant now
PatchedReminder(r, patch, order, now) ==
    PatchLoop([r |-> r, updated |-> FALSE, st |-> Store, failed |-> FALSE],
              patch, order, now, FALSE).r

\* UpdateReminderHandler from there: the patch loop over the reminder read,
\* the write and the response
UpdateReminderEnd(p) ==
    LET patch == procs[p].patch
        usesNow == patch.completed.kind = "ok"
        now == clock + 1
        h0 == [r |-> procs[p].seen, updated |-> FALSE, st |-> Store,
               failed |-> FALSE]
        h == PatchLoop(h0, patch, procs[p].order, now, FALSE)
    IN /\ procs[p].pc = "patching"
       /\ usesNow => clock < MaxTime
       /\ SetStore(IF h.updated THEN CreateReminder(h.st, h.r) ELSE h.st)
       /\ clock' = IF usesNow THEN now ELSE clock
       /\ lastReq' = [Request("PATCH", procs[p].id) EXCEPT
                         !.keys = Present(patch),
                         !.ok = TypeCompatible(patch),
                         !.completed = CompletedOf(patch),
                         !.wrote = h.updated]
       /\ resp' = Response(200, h.r)
       /\ procs' = [procs EXCEPT ![p] = [@ EXCEPT !.pc = "patched", !.now = now]]
       /\ UNCHANGED backend

\* both goroutines have returned; the next requests arrive
Return ==
    /\ \A p \in Procs : procs[p].pc \in {"idle", "patched", "generated"}
    /\ \E p \in Procs : procs[p].pc # "idle"
    /\ procs' = [p \in Procs |-> IdleProc]
    /\ UNCHANGED <<backend, families, reminders, completionEvents,
                   familyIDCounter, reminderIDCounter, completionEventIDCounter,
                   clock, lastReq, resp>>

-----------------------------------------------------------------------------
(* The service under completion toggles: one family, reminders created by  *)
(* POST /reminders, PATCH bodies over completed, recurrence and            *)
(* family_member, completion events posted and deleted.                    *)

Init ==
    /\ backend \in Backends
    /\ families = NewStorage.families
    /\ reminders = NewStorage.reminders
    /\ completionEvents = NewStorage.completionEvents
    /\ familyIDCounter = NewStorage.familyIDCounter
    /\ reminderIDCounter = NewStorage.reminderIDCounter
    /\ completionEventIDCounter = NewStorage.completionEventIDCounter
    /\ clock = 0
    /\ lastReq = Request("none", NoID)
    /\ resp = Response(0, NoBody)
    /\ procs = [p \in Procs |-> IdleProc]

DailyP == RecurrencePattern("daily", <<>>, 0, "")
WeeklyMondayP == RecurrencePattern("weekly", <<"monday">>, 0, "")
WeeklyNoDaysP == RecurrencePattern("weekly", <<>>, 0, "")
UntypedP == RecurrencePattern("", <<>>, 0, "")

FamilyBodies == {[name |-> "Smith", members |-> <<"Alice", "Bob">>]}

ReminderBody(member, rec) ==
    [title |-> "Trash", description |-> "", due_date |-> "2025-05-21T10:00:00Z",
     family_id |-> FamID(1), family_member |-> member, recurrence |-> rec]

ReminderBodies == {ReminderBody("Alice", WeeklyMondayP), ReminderBody("Bob", UntypedP)}

TogglePatches ==
    {[NoPatch EXCEPT !.completed = c, !.recurrence = rec] :
        c \in {Absent(FALSE), Ok(TRUE), Ok(FALSE)},
        rec \in {Absent(OnceP), Ok(OnceP), Ok(DailyP)}} \ {NoPatch}

EventBodies ==
    {[id |-> i, reminder_id |-> RemID(1), completed_by |-> "Bob",
      completed_at |-> NoTime] : i \in {NoID, CevID(1)}}

Next ==
    \/ \E body \in FamilyBodies :
         DOMAIN families = {} /\ CreateFamilyHandler(body) /\ UNCHANGED procs
    \/ \E body \in ReminderBodies : CreateReminderHandler(body) /\ UNCHANGED procs
    \/ \E id \in DOMAIN reminders, patch \in TogglePatches :
         \E order \in Orders(Present(patch)) :
            UpdateReminderHandler(id, patch, order, FALSE) /\ UNCHANGED procs
    \/ \E body \in EventBodies : CreateCompletionEventHandler(body) /\ UNCHANGED procs

Spec == Init /\ [][Next]_vars

-----------------------------------------------------------------------------
(* The Storage interface called directly, as the storage tests call it, on *)
(* the four implementations.  A MongoStorage collection is kept as the     *)
(* function from each document's _id to the document.                      *)

MongoBackends == Backends \cup {"mongo"}

\* InsertOne: the driver gives the document a fresh _id
MongoInsertOne(coll, doc) ==
    LET n == CHOOSE i \in 1..(Cardinality(DOMAIN coll) + 1) :
                 <<"_id", i>> \notin DOMAIN coll
    IN Put(coll, <<"_id", n>>, doc)

\* the _ids of the documents matching the filter {"id": id}
MongoMatches(coll, id) == {k \in DOMAIN coll : coll[k].id = id}

\* the reminders Store.GetReminder(id) can return: on MongoStorage FindOne
\* returns one of the matching documents, in no specified order
FoundReminders(st, id) ==
    IF backend = "mongo"
    THEN {st.reminders[k] : k \in MongoMatches(st.reminders, id)}
    ELSE IF HasReminder(st, id) THEN {GetReminder(st, id)} ELSE {}

FoundCompletionEvents(st, id) ==
    IF backend = "mongo"
    THEN {st.completionEvents[k] : k \in MongoMatches(st.completionEvents, id)}
    ELSE IF HasCompletionEvent(st, id) THEN {GetCompletionEvent(st, id)} ELSE {}

\* how many entries of ListReminders() carry the id
ListedReminders(st, id) ==
    Cardinality({k \in DOMAIN st.reminders : st.reminders[k].id = id})

\* how many entries of ListCompletionEvents(e.reminder_id) carry the id
ListedCompletionEvents(st, id) ==
    Cardinality({k \in DOMAIN st.completionEvents : st.completionEvents[k].id = id})

StorageGenerateID(prefix) ==
    LET g == CASE prefix = "rem" -> GenerateReminderID(Store)
               [] OTHER -> GenerateCompletionEventID(Store)
    IN /\ GetCounter(Store, prefix) < MaxCounter
       /\ SetStore(g.st)
       /\ lastReq' = Request("GenerateID", g.id)
       /\ resp' = Response(200, NoBody)
       /\ UNCHANGED <<backend, clock, procs>>

StorageCreateReminder(r) ==
    /\ Cardinality(DOMAIN reminders) < MaxCounter
    /\ SetStore(IF backend = "mongo"
                THEN [Store EXCEPT !.reminders = MongoInsertOne(@, r)]
                ELSE CreateReminder(Store, r))
    /\ lastReq' = Request("CreateReminder", r.id)
    /\ resp' = Response(200, r)
    /\ UNCHANGED <<backend, clock, procs>>

StorageDeleteReminder(id) ==
    /\ lastReq' = Request("DeleteReminder", id)
    /\ IF backend = "mongo"
       THEN IF MongoMatches(reminders, id) = {}
            THEN /\ resp' = Response(500, NoBody)
                 /\ UNCHANGED <<families, reminders, completionEvents,
                                familyIDCounter, reminderIDCounter,
                                completionEventIDCounter>>
            ELSE /\ \E k \in MongoMatches(reminders, id) :
                      SetStore([Store EXCEPT !.reminders = Remove(@, k)])
                 /\ resp' = Response(200, NoBody)
       ELSE /\ SetStore(DeleteReminder(Store, id))
            /\ resp' = Response(200, NoBody)
    /\ UNCHANGED <<backend, clock, procs>>

StorageCreateCompletionEvent(e) ==
    /\ Cardinality(DOMAIN completionEvents) < MaxCounter
    /\ SetStore(IF backend = "mongo"
                THEN [Store EXCEPT !.completionEvents = MongoInsertOne(@, e)]
                ELSE CreateCompletionEvent(Store, e))
    /\ lastReq' = Request("CreateCompletionEvent", e.id)
    /\ resp' = Response(200, e)
    /\ UNCHANGED <<backend, clock, procs>>

StorageDeleteCompletionEvent(id) ==
    /\ lastReq' = Request("DeleteCompletionEvent", id)
    /\ IF backend = "mongo"
       THEN IF MongoMatches(completionEvents, id) = {}
            THEN /\ resp' = Response(500, NoBody)
                 /\ UNCHANGED <<families, reminders, completionEvents,
                                familyIDCounter, reminderIDCounter,
                                completionEventIDCounter>>
            ELSE /\ \E k \in MongoMatches(completionEvents, id) :
                      SetStore([Store EXCEPT !.completionEvents = Remove(@, k)])
                 /\ resp' = Response(200, NoBody)
       ELSE /\ SetStore(DeleteCompletionEvent(Store, id))
            /\ resp' = Response(200, NoBody)
    /\ UNCHANGED <<backend, clock, procs>>

StorageInit ==
    /\ backend \in MongoBackends
    /\ families = NewStorage.families
    /\ reminders = NewStorage.reminders
    /\ completionEvents = NewStorage.completionEvents
    /\ familyIDCounter = NewStorage.familyIDCounter
    /\ reminderIDCounter = NewStorage.reminderIDCounter
    /\ completionEventIDCounter = NewStorage.completionEventIDCounter
    /\ clock = 0
    /\ lastReq = Request("none", NoID)
    /\ resp = Response(0, NoBody)
    /\ procs = [p \in Procs |-> IdleProc]

StorageReminderIDs == {RemID(1)}

StorageReminders ==
    {NewReminder(id, title, "", "", FamID(1), "Bob", OnceP) :
        id \in StorageReminderIDs, title \in {"Trash", "Dishes"}}

StorageEventIDs == {CevID(1)}

StorageEvents ==
    {[id |-> id, reminder_id |-> RemID(1), completed_by |-> by, completed_at |-> 1] :
        id \in StorageEventIDs, by \in {"Alice", "Bob"}}

StorageNext ==
    \/ \E prefix \in {"rem", "cev"} : StorageGenerateID(prefix)
    \/ \E r \in StorageReminders : StorageCreateReminder(r)
    \/ \E id \in StorageReminderIDs : StorageDeleteReminder(id)
    \/ \E e \in StorageEvents : StorageCreateCompletionEvent(e)
    \/ \E id \in StorageEventIDs : StorageDeleteCompletionEvent(id)

StorageSpec == StorageInit /\ [][StorageNext]_vars

-----------------------------------------------------------------------------
(* Create, Get, List and Delete of the three entity kinds on the four      *)
(* implementations.  Get and List change nothing: what they return is read *)
(* off the store by FoundFamilies, FoundReminders, FoundCompletionEvents   *)
(* and ListCompletionEvents.                                               *)

FoundFamilies(st, id) ==
    IF backend = "mongo"
    THEN {st.families[k] : k \in MongoMatches(st.families, id)}
    ELSE IF HasFamily(st, id) THEN {GetFamily(st, id)} ELSE {}

StorageCreateFamily(f) ==
    /\ Cardinality(DOMAIN families) < MaxCounter
    /\ SetStore(IF backend = "mongo"
                THEN [Store EXCEPT !.families = MongoInsertOne(@, f)]
                ELSE CreateFamily(Store, f))
    /\ lastReq' = Request("CreateFamily", f.id)
    /\ resp' = IF backend # "mongo" /\ CreateFamilyFails(Store, f)
               THEN Response(500, NoBody)
               ELSE Response(200, f)
    /\ UNCHANGED <<backend, clock, procs>>

StorageDeleteFamily(id) ==
    /\ lastReq' = Request("DeleteFamily", id)
    /\ IF backend = "mongo"
       THEN IF MongoMatches(families, id) = {}
            THEN /\ resp' = Response(500, NoBody)
                 /\ UNCHANGED <<families, reminders, completionEvents,
                                familyIDCounter, reminderIDCounter,
                                completionEventIDCounter>>
            ELSE /\ \E k \in MongoMatches(families, id) :
                      SetStore([Store EXCEPT !.families = Remove(@, k)])
                 /\ resp' = Response(200, NoBody)
       ELSE /\ SetStore(DeleteFamily(Store, id))
            /\ resp' = Response(200, NoBody)
    /\ UNCHANGED <<backend, clock, procs>>

CrudFamilies == {[id |-> FamID(1), name |-> "Smith", members |-> <<"Alice", "Bob">>]}

CrudReminders ==
    {NewReminder(RemID(1), "Trash", "", "", FamID(1), "Bob",
                 RecurrencePattern("daily", <<>>, 0, endDate)) :
        endDate \in {"", "2026-01-01T12:00:00Z", FarFuture}}

\* the reminders the events name: rem1, and rem2 which is never stored
CrudReminderIDs == {RemID(1), RemID(2)}

CompletionEvent(id, reminderID) ==
    [id |-> id, reminder_id |-> reminderID, completed_by |-> "Bob", completed_at |-> 1]

CrudEvents ==
    {CompletionEvent(CevID(1), RemID(1)), CompletionEvent(CevID(1), RemID(2)),
     CompletionEvent(CevID(2), RemID(2))}

CrudNext ==
    \/ \E f \in CrudFamilies : StorageCreateFamily(f)
    \/ \E f \in CrudFamilies : StorageDeleteFamily(f.id)
    \/ \E r \in CrudReminders : StorageCreateReminder(r)
    \/ \E r \in CrudReminders : StorageDeleteReminder(r.id)
    \/ \E e \in CrudEvents : StorageCreateCompletionEvent(e)
    \/ \E e \in CrudEvents : StorageDeleteCompletionEvent(e.id)

CrudSpec == StorageInit /\ [][CrudNext]_vars

-----------------------------------------------------------------------------
(* A storage that is closed and opened again on the same files: entities   *)
(* are created by the create handlers, each under a generated id.          *)

FileBackends == {"file", "sqlite"}

Reopen_FreshCounters(st) ==
    [st EXCEPT !.familyIDCounter = NewStorage.familyIDCounter,
               !.reminderIDCounter = NewStorage.reminderIDCounter,
               !.completionEventIDCounter = NewStorage.completionEventIDCounter]

\* NewFileStorage recalculates the counters from the files; NewSQLiteStorage
\* finds the counters table as it was left
Reopen(st) ==
    IF backend = "file"
    THEN [st EXCEPT !.familyIDCounter = MaxNumericID(st.families, "fam"),
                    !.reminderIDCounter = MaxNumericID(st.reminders, "rem"),
                    !.completionEventIDCounter =
                        MaxNumericID(st.completionEvents, "cev")]
    ELSE st

ReopenStorage ==
    /\ lastReq.op # "reopen"
    /\ SetStore(Reopen(Store))
    /\ lastReq' = Request("reopen", NoID)
    /\ resp' = Response(0, NoBody)
    /\ UNCHANGED <<backend, clock, procs>>

PersistInit ==
    /\ backend \in FileBackends
    /\ families = NewStorage.families
    /\ reminders = NewStorage.reminders
    /\ completionEvents = NewStorage.completionEvents
    /\ familyIDCounter = NewStorage.familyIDCounter
    /\ reminderIDCounter = NewStorage.reminderIDCounter
    /\ completionEventIDCounter = NewStorage.completionEventIDCounter
    /\ clock = 0
    /\ lastReq = Request("none", NoID)
    /\ resp = Response(0, NoBody)
    /\ procs = [p \in Procs |-> IdleProc]

PersistEventBodies ==
    {[id |-> NoID, reminder_id |-> RemID(1), completed_by |-> by,
      completed_at |-> NoTime] : by \in {"Alice", "Bob"}}

PersistNext ==
    \/ \E body \in FamilyBodies :
         /\ familyIDCounter < MaxCounter
         /\ CreateFamilyHandler(body)
         /\ UNCHANGED procs
    \/ \E body \in ReminderBodies : CreateReminderHandler(body) /\ UNCHANGED procs
    \/ \E body \in PersistEventBodies :
         CreateCompletionEventHandler(body) /\ UNCHANGED procs
    \/ ReopenStorage

PersistSpec == PersistInit /\ [][PersistNext]_vars

-----------------------------------------------------------------------------
(* Two requests at a time on a store that holds one family and one         *)
(* reminder: PATCH requests on the reminder and calls of the id generators *)
(* interleave at the Storage calls.                                        *)

\* the store after POST /families {Smith, [Alice, Bob]} and POST /reminders
\* for Bob without a recurrence type
SeededStore ==
    LET gf == GenerateFamilyID(NewStorage)
        body == CHOOSE b \in FamilyBodies : TRUE
        f == [id |-> gf.id, name |-> body.name, members |-> body.members]
        s1 == CreateFamily(gf.st, f)
        gr == GenerateReminderID(s1)
        rb == ReminderBody("Bob", UntypedP)
        re == NewReminder(gr.id, rb.title, rb.description, rb.due_date,
                          rb.family_id, rb.family_member, OnceP)
    IN CreateReminder(gr.st, re)

SeededInit ==
    /\ backend \in Backends
    /\ families = SeededStore.families
    /\ reminders = SeededStore.reminders
    /\ completionEvents = SeededStore.completionEvents
    /\ familyIDCounter = SeededStore.familyIDCounter
    /\ reminderIDCounter = SeededStore.reminderIDCounter
    /\ completionEventIDCounter = SeededStore.completionEventIDCounter
    /\ clock = 0
    /\ lastReq = Request("none", NoID)
    /\ resp = Response(0, NoBody)
    /\ procs = [p \in Procs |-> IdleProc]

ConcPatches ==
    {[NoPatch EXCEPT !.title = Ok("Dishes")],
     [NoPatch EXCEPT !.completed = Ok(TRUE)],
     [NoPatch EXCEPT !.completed = Ok(FALSE)]}

IDPrefixes == {"fam", "rem", "cev"}

ConcNext ==
    \/ \E p \in Procs, id \in DOMAIN reminders, patch \in ConcPatches :
         \E order \in Orders(Present(patch)) :
            UpdateReminderBegin(p, id, patch, order)
    \/ \E p \in Procs : UpdateReminderEnd(p)
    \/ \E p \in Procs, prefix \in IDPrefixes : GenerateBegin(p, prefix)
    \/ \E p \in Procs : GenerateEnd(p)
    \/ Return

ConcSpec == SeededInit /\ [][ConcNext]_vars

-----------------------------------------------------------------------------
(* PATCH bodies of one applicable key, or none, together with unknown and  *)
(* wrong-typed keys, on the seeded store.                                  *)

\* bodies without a key of the switch holding a value of the asserted type:
\* the empty object, an unknown key, and wrong-typed values
InapplicablePatches ==
    {NoPatch,
     [NoPatch EXCEPT !.other = Ok("x")],
     [NoPatch EXCEPT !.recurrence = Bad(OnceP)],
     [NoPatch EXCEPT !.title = Bad(""), !.completed = Bad(FALSE)]}

PatchValues(k) ==
    CASE k = "title" -> {Ok("Dishes")}
      [] k = "description" -> {Ok("Tonight")}
      [] k = "due_date" -> {Ok(""), Ok("2026-01-01T12:00:00Z"), Ok("tomorrow"), Bad("")}
      [] k = "completed" -> {Ok(TRUE)}
      [] OTHER -> {Ok("Alice")}

FramePatches ==
    InapplicablePatches \cup
    UNION {{[n EXCEPT ![k] = v] : n \in InapplicablePatches, v \in PatchValues(k)} :
             k \in {"title", "description", "due_date", "completed", "family_member"}}

PatchNext ==
    \E id \in DOMAIN reminders, patch \in FramePatches :
       \E order \in Orders(Present(patch)) :
          UpdateReminderHandler(id, patch, order, FALSE) /\ UNCHANGED procs

PatchSpec == SeededInit /\ [][PatchNext]_vars

-----------------------------------------------------------------------------
(* Requests that fail part-way or that creation would have refused: a      *)
(* PATCH whose completion event cannot be stored, a PATCH that carries     *)
(* `completed` with other keys or an arbitrary recurrence, and a POST      *)
(* /completion-events without its required fields.                         *)

YearlyP == RecurrencePattern("yearly", <<>>, 0, "")

FaultPatches ==
    {[NoPatch EXCEPT !.completed = Ok(TRUE)],
     [NoPatch EXCEPT !.completed = Ok(FALSE)],
     [NoPatch EXCEPT !.title = Ok("Dishes"), !.completed = Ok(TRUE)],
     [NoPatch EXCEPT !.completed = Ok(TRUE), !.recurrence = Ok(DailyP)],
     [NoPatch EXCEPT !.completed = Ok(TRUE), !.family_member = Ok("Alice")],
     [NoPatch EXCEPT !.recurrence = Ok(WeeklyNoDaysP)],
     [NoPatch EXCEPT !.recurrence = Ok(YearlyP)]}

FaultEventBodies ==
    {[id |-> i, reminder_id |-> rid, completed_by |-> by, completed_at |-> NoTime] :
        i \in {NoID, CevID(1)}, rid \in {NoID, RemID(1)}, by \in {"", "Bob"}}

FaultNext ==
    \/ \E id \in DOMAIN reminders, patch \in FaultPatches, cevFails \in BOOLEAN :
         \E order \in Orders(Present(patch)) :
            UpdateReminderHandler(id, patch, order, cevFails) /\ UNCHANGED procs
    \/ \E body \in FaultEventBodies :
         CreateCompletionEventHandler(body) /\ UNCHANGED procs

FaultSpec == SeededInit /\ [][FaultNext]_vars

-----------------------------------------------------------------------------
(* The handlers that guard the storage with the package mutex Mu.  Each    *)
(* request is served on its own goroutine: it waits at Mu.Lock() until Mu  *)
(* is free, runs the guarded statements, and returns.  A sync.Mutex is not *)
(* owned: it stays locked until some goroutine calls Unlock, whether or    *)
(* not the goroutine that locked it still runs.  The field mu of a slot    *)
(* tells that the goroutine served there locked Mu and Mu was not unlocked *)
(* since.                                                                  *)

NoEventBody ==
    [id |-> NoID, reminder_id |-> NoID, completed_by |-> "", completed_at |-> NoTime]

MuIdleProc ==
    [pc |-> "idle", id |-> NoID, patch |-> NoPatch, order |-> <<>>,
     fails |-> FALSE, body |-> NoEventBody, mu |-> FALSE]

MuLocked == \E p \in Procs : procs[p].mu

\* the statements at which a goroutine is inside a handler
MuRunning ==
    {"lock671", "in671", "lock785", "in785", "at789", "lock796", "in796",
     "lock840", "in840"}

\* requests in flight that will call time.Now() / advance the event counter
MuWillUseNow ==
    Cardinality({p \in Procs :
        \/ procs[p].pc \in {"lock671", "in671"} /\ procs[p].patch.completed.kind = "ok"
        \/ procs[p].pc \in {"lock785", "in785", "at789"}
             /\ procs[p].body.reminder_id # NoID /\ procs[p].body.completed_by # ""})

MuWillGenerate == Cardinality({p \in Procs : procs[p].pc \in {"lock785", "in785"}})

MuStoreUnchanged ==
    UNCHANGED <<backend, families, reminders, completionEvents,
                familyIDCounter, reminderIDCounter, completionEventIDCounter>>

\* a PATCH /reminders/{id} arrives: UpdateReminderHandler up to Mu.Lock()
MuUpdateReminderArrive(p, id, patch, order, cevFails) ==
    /\ procs[p].pc = "idle"
    /\ order \in Orders(Present(patch))
    /\ cevFails => patch.completed.kind = "ok" /\ backend # "memory"
    /\ patch.completed.kind = "ok" => clock + MuWillUseNow < MaxTime
    /\ procs' = [procs EXCEPT ![p] =
                    [@ EXCEPT !.pc = "lock671", !.id = id, !.patch = patch,
                              !.order = order, !.fails = cevFails]]
    /\ MuStoreUnchanged
    /\ UNCHANGED <<clock, lastReq, resp>>

\* a POST /completion-events arrives: CreateCompletionEventHandler up to
\* `if e.ID == ""`
MuCreateCompletionEventArrive(p, body) ==
    /\ procs[p].pc = "idle"
    /\ (body.reminder_id # NoID /\ body.completed_by # "")
          => clock + MuWillUseNow < MaxTime
    /\ body.id = NoID => completionEventIDCounter + MuWillGenerate < MaxTime
    /\ procs' = [procs EXCEPT ![p] =
                    [@ EXCEPT !.pc = IF body.id = NoID THEN "lock785" ELSE "at789",
                              !.id = body.id, !.body = body]]
    /\ MuStoreUnchanged
    /\ UNCHANGED <<clock, lastReq, resp>>

\* a DELETE /completion-events/{id} arrives
MuDeleteCompletionEventArrive(p, id) ==
    /\ procs[p].pc = "idle"
    /\ procs' = [procs EXCEPT ![p] = [@ EXCEPT !.pc = "lock840", !.id = id]]
    /\ MuStoreUnchanged
    /\ UNCHANGED <<clock, lastReq, resp>>

\* Mu.Lock() returns once Mu is free
MuLock(p) ==
    /\ procs[p].pc \in {"lock671", "lock785", "lock796", "lock840"}
    /\ ~MuLocked
    /\ procs' = [procs EXCEPT ![p] =
                    [@ EXCEPT !.mu = TRUE,
                              !.pc = CASE @ = "lock671" -> "in671"
                                       [] @ = "lock785" -> "in785"
                                       [] @ = "lock796" -> "in796"
                                       [] OTHER -> "in840"]]
    /\ MuStoreUnchanged
    /\ UNCHANGED <<clock, lastReq, resp>>

\* UpdateReminderHandler from Store.GetReminder to its return.  The not-found
\* return and the return after the loop call Mu.Unlock(); the return on a
\* failed Store.CreateCompletionEvent does not.
MuUpdateReminder(p) ==
    LET id == procs[p].id
        h0 == [r |-> GetReminder(Store, id), updated |-> FALSE,
               st |-> Store, failed |-> FALSE]
        eventFailed ==
            /\ HasReminder(Store, id)
            /\ PatchLoop(h0, procs[p].patch, procs[p].order, clock + 1,
                         procs[p].fails).failed
    IN /\ procs[p].pc = "in671"
       /\ UpdateReminderHandler(id, procs[p].patch, procs[p].order, procs[p].fails)
       /\ procs' = [procs EXCEPT ![p] =
                       [@ EXCEPT !.pc = "done", !.mu = eventFailed]]

\* e.ID = storage.GenerateCompletionEventID(Store); Mu.Unlock()
MuGenerateCompletionEventID(p) ==
    LET g == GenerateCompletionEventID(Store)
    IN /\ procs[p].pc = "in785"
       /\ SetStore(g.st)
       /\ procs' = [procs EXCEPT ![p] =
                       [@ EXCEPT !.pc = "at789", !.mu = FALSE, !.body.id = g.id]]
       /\ UNCHANGED <<backend, clock, lastReq, resp>>

\* the check of reminder_id and completed_by, and the default of completed_at
MuValidateCompletionEvent(p) ==
    LET body == procs[p].body
        rejected == body.reminder_id = NoID \/ body.completed_by = ""
        usesNow == ~rejected /\ body.completed_at = NoTime
        now == clock + 1
    IN /\ procs[p].pc = "at789"
       /\ IF rejected
          THEN /\ lastReq' = Request("POST /completion-events", procs[p].id)
               /\ resp' = Response(400, NoBody)
               /\ procs' = [procs EXCEPT ![p] = [@ EXCEPT !.pc = "done"]]
          ELSE /\ procs' = [procs EXCEPT ![p] =
                               [@ EXCEPT !.pc = "lock796",
                                         !.body.completed_at =
                                             IF usesNow THEN now ELSE @]]
               /\ UNCHANGED <<lastReq, resp>>
       /\ clock' = IF usesNow THEN now ELSE clock
       /\ MuStoreUnchanged

\* err = Store.CreateCompletionEvent(&e); Mu.Unlock(); the response
MuCreateCompletionEvent(p) ==
    /\ procs[p].pc = "in796"
    /\ SetStore(CreateCompletionEvent(Store, procs[p].body))
    /\ lastReq' = Request("POST /completion-events", procs[p].id)
    /\ resp' = Response(201, procs[p].body)
    /\ procs' = [procs EXCEPT ![p] = [@ EXCEPT !.pc = "done", !.mu = FALSE]]
    /\ UNCHANGED <<backend, clock>>

\* err := Store.DeleteCompletionEvent(id); Mu.Unlock(); the response
MuDeleteCompletionEvent(p) ==
    /\ procs[p].pc = "in840"
    /\ DeleteCompletionEventHandler(procs[p].id)
    /\ procs' = [procs EXCEPT ![p] = [@ EXCEPT !.pc = "done", !.mu = FALSE]]

\* the goroutine has returned; the slot serves the next request
MuReturn(p) ==
    /\ procs[p].pc = "done"
    /\ procs' = [procs EXCEPT ![p] = [MuIdleProc EXCEPT !.mu = procs[p].mu]]
    /\ MuStoreUnchanged
    /\ UNCHANGED <<clock, lastReq, resp>>

MuInit ==
    /\ backend \in Backends
    /\ families = SeededStore.families
    /\ reminders = SeededStore.reminders
    /\ completionEvents = SeededStore.completionEvents
    /\ familyIDCounter = SeededStore.familyIDCounter
    /\ reminderIDCounter = SeededStore.reminderIDCounter
    /\ completionEventIDCounter = SeededStore.completionEventIDCounter
    /\ clock = 0
    /\ lastReq = Request("none", NoID)
    /\ resp = Response(0, NoBody)
    /\ procs = [p \in Procs |-> MuIdleProc]

\* the body that reaches Store.CreateCompletionEvent
MuPatches == {[NoPatch EXCEPT !.completed = Ok(TRUE)]}

\* bodies without id, with and without reminder_id
MuEventBodies ==
    {[NoEventBody EXCEPT !.reminder_id = rid, !.completed_by = "Bob"] :
        rid \in {NoID, RemID(1)}}

MuNext ==
    \/ \E p \in Procs, id \in DOMAIN reminders, patch \in MuPatches,
          cevFails \in BOOLEAN :
         \E order \in Orders(Present(patch)) :
            MuUpdateReminderArrive(p, id, patch, order, cevFails)
    \/ \E p \in Procs, body \in MuEventBodies : MuCreateCompletionEventArrive(p, body)
    \/ \E p \in Procs, id \in {CevID(1)} : MuDeleteCompletionEventArrive(p, id)
    \/ \E p \in Procs : MuLock(p)
    \/ \E p \in Procs : MuUpdateReminder(p)
    \/ \E p \in Procs : MuGenerateCompletionEventID(p)
    \/ \E p \in Procs : MuValidateCompletionEvent(p)
    \/ \E p \in Procs : MuCreateCompletionEvent(p)
    \/ \E p \in Procs : MuDeleteCompletionEvent(p)
    \/ \E p \in Procs : MuReturn(p)

MuSpec == MuInit /\ [][MuNext]_vars

-----------------------------------------------------------------------------
(* Reminder creation under valid and invalid bodies, on a store with one   *)
(* family or none.                                                         *)

MonthlyP(date) == RecurrencePattern("monthly", <<>>, date, "")

CreateFamilyBodies ==
    FamilyBodies \cup {[name |-> "Jones", members |-> <<"Carol">>]}

CreateRecurrences ==
    {UntypedP, OnceP, DailyP, WeeklyMondayP, WeeklyNoDaysP,
     RecurrencePattern("weekly", <<"Monday", "Friday">>, 0, ""),
     RecurrencePattern("weekly", <<"monday", "funday">>, 0, ""),
     MonthlyP(0), MonthlyP(1), MonthlyP(31), MonthlyP(32),
     RecurrencePattern("yearly", <<>>, 0, ""),
     RecurrencePattern("daily", <<>>, 0, "2026-01-01T12:00:00Z"),
     RecurrencePattern("daily", <<>>, 0, "next year"),
     RecurrencePattern("", <<>>, 0, "next year")}

CreateReminderBodies ==
    {[ReminderBody(member, rec) EXCEPT !.family_id = fam] :
        fam \in {NoID, FamID(1), FamID(2)},
        member \in {"", "Alice", "Carol"},
        rec \in CreateRecurrences}

CreateNext ==
    \/ \E body \in CreateFamilyBodies :
         DOMAIN families = {} /\ CreateFamilyHandler(body) /\ UNCHANGED procs
    \/ \E body \in CreateReminderBodies :
         CreateReminderHandler(body) /\ UNCHANGED procs

CreateSpec == Init /\ [][CreateNext]_vars

-----------------------------------------------------------------------------
(* The recurrence evaluators: Reminder.NextOccurrence of internal/reminder *)
(* and isDueToday of www/member.ts, over the proleptic Gregorian calendar  *)
(* from 1 January 2025 on, in one time zone.  A time is a record of year,  *)
(* month, day, hour, minute and second; an optional time is a set of at    *)
(* most one time.                                                          *)

IsLeap(y) == (y % 4 = 0 /\ y % 100 # 0) \/ y % 400 = 0

DaysInYear(y) == IF IsLeap(y) THEN 366 ELSE 365

DaysInMonth(y, m) ==
    CASE m \in {4, 6, 9, 11} -> 30
      [] m = 2 -> IF IsLeap(y) THEN 29 ELSE 28
      [] OTHER -> 31

RECURSIVE DaysBeforeYear(_)
DaysBeforeYear(y) == IF y <= 2025 THEN 0 ELSE DaysBeforeYear(y - 1) + DaysInYear(y - 1)

RECURSIVE DaysBeforeMonth(_, _)
DaysBeforeMonth(y, m) ==
    IF m <= 1 THEN 0 ELSE DaysBeforeMonth(y, m - 1) + DaysInMonth(y, m - 1)

\* days from 1 January 2025 to day d of month m of year y; d may lie
\* outside the month
DayNumber(y, m, d) == DaysBeforeYear(y) + DaysBeforeMonth(y, m) + d - 1

RECURSIVE YearOfDay(_, _)
YearOfDay(n, y) ==
    IF n < DaysInYear(y) THEN <<y, n>> ELSE YearOfDay(n - DaysInYear(y), y + 1)

RECURSIVE MonthOfDay(_, _, _)
MonthOfDay(n, y, m) ==
    IF n < DaysInMonth(y, m) THEN <<m, n + 1>>
    ELSE MonthOfDay(n - DaysInMonth(y, m), y, m + 1)

\* time.Date: a month outside 1..12 and a day outside the month are carried
\* over into the year and the month
Date(year, month, day, hour, min, sec) ==
    LET y0 == year + ((month - 1) \div 12)
        m0 == ((month - 1) % 12) + 1
        yn == YearOfDay(DayNumber(y0, m0, day), 2025)
        md == MonthOfDay(yn[2], yn[1], 1)
    IN [year |-> yn[1], month |-> md[1], day |-> md[2],
        hour |-> hour, minute |-> min, second |-> sec]

AddDate(t, years, months, days) ==
    Date(t.year + years, t.month + months, t.day + days, t.hour, t.minute, t.second)

Seconds(t) ==
    DayNumber(t.year, t.month, t.day) * 86400
       + t.hour * 3600 + t.minute * 60 + t.second

After(t, u) == Seconds(t) > Seconds(u)
Before(t, u) == Seconds(t) < Seconds(u)

\* Weekday().String(): 1 January 2025 is a Wednesday
WeekdayString(t) ==
    LET n == (DayNumber(t.year, t.month, t.day) + 3) % 7
    IN CASE n = 0 -> "Sunday"
         [] n = 1 -> "Monday"
         [] n = 2 -> "Tuesday"
         [] n = 3 -> "Wednesday"
         [] n = 4 -> "Thursday"
         [] n = 5 -> "Friday"
         [] OTHER -> "Saturday"

\* time.Parse(time.RFC3339, s) on the strings of RFC3339Strings
ParseTime(s) ==
    CASE s = "2025-05-21T10:00:00Z" -> Date(2025, 5, 21, 10, 0, 0)
      [] s = "2026-01-01T12:00:00Z" -> Date(2026, 1, 1, 12, 0, 0)
      [] OTHER -> Date(2099, 12, 31, 23, 59, 59)

\* r.DueDate.Hour(), Minute() and Second(); the zero time when the reminder
\* has no due date
DueClock(r) ==
    IF r.due_date = "" THEN [hour |-> 0, minute |-> 0, second |-> 0]
    ELSE LET d == ParseTime(r.due_date)
         IN [hour |-> d.hour, minute |-> d.minute, second |-> d.second]

RECURSIVE WeeklyScan_SixDays(_, _, _)
WeeklyScan_SixDays(r, next, i) ==
    IF i >= 6 THEN {}
    ELSE LET n == AddDate(next, 0, 0, 1)
             weekday == ToLower(WeekdayString(n))
         IN IF \E k \in DOMAIN r.recurrence.days : r.recurrence.days[k] = weekday
            THEN {Date(n.year, n.month, n.day,
                       DueClock(r).hour, DueClock(r).minute, DueClock(r).second)}
            ELSE WeeklyScan_SixDays(r, n, i + 1)

\* the loop of the "weekly" case, from its i-th round on
RECURSIVE WeeklyScan(_, _, _)
WeeklyScan(r, next, i) ==
    IF i >= 7 THEN {}
    ELSE LET n == AddDate(next, 0, 0, 1)
             weekday == ToLower(WeekdayString(n))
         IN IF \E k \in DOMAIN r.recurrence.days : r.recurrence.days[k] = weekday
            THEN {Date(n.year, n.month, n.day,
                       DueClock(r).hour, DueClock(r).minute, DueClock(r).second)}
            ELSE WeeklyScan(r, n, i + 1)

\* the "monthly" case
MonthlyNext(r, after) ==
    LET next == Date(after.year, after.month, r.recurrence.date,
                     DueClock(r).hour, DueClock(r).minute, DueClock(r).second)
    IN IF Before(next, after) THEN AddDate(next, 0, 1, 0) ELSE next

\* whether the end date check returns nil
PastEndDate(r, after) ==
    /\ r.recurrence.end_date # ""
    /\ ParsesRFC3339(r.recurrence.end_date)
    /\ After(after, ParseTime(r.recurrence.end_date))

NextOccurrence_IgnoresEndDate(r, after) ==
    IF r.recurrence.type = "once"
    THEN IF r.due_date # "" /\ After(ParseTime(r.due_date), after)
         THEN {ParseTime(r.due_date)}
         ELSE {}
    ELSE CASE r.recurrence.type = "weekly" -> WeeklyScan(r, after, 0)
           [] r.recurrence.type = "monthly" -> {MonthlyNext(r, after)}
           [] OTHER -> {}

\* NextOccurrence: {} is nil.  A reminder without due date has the zero
\* time as DueDate, which is after no time of the model.
NextOccurrence(r, after) ==
    IF r.recurrence.type = "once"
    THEN IF r.due_date # "" /\ After(ParseTime(r.due_date), after)
         THEN {ParseTime(r.due_date)}
         ELSE {}
    ELSE IF PastEndDate(r, after) THEN {}
    ELSE CASE r.recurrence.type = "weekly" -> WeeklyScan(r, after, 0)
           [] r.recurrence.type = "monthly" -> {MonthlyNext(r, after)}
           [] OTHER -> {}

SameDay(t, u) == t.year = u.year /\ t.month = u.month /\ t.day = u.day

\* isDueToday of member.ts, with `today` the local midnight it is called on
isDueToday(r, today) ==
    IF r.due_date # "" /\ SameDay(ParseTime(r.due_date), today) THEN TRUE
    ELSE CASE r.recurrence.type = "daily" -> TRUE
           [] r.recurrence.type = "weekly" ->
                ToLower(WeekdayString(today)) \in Range(r.recurrence.days)
           [] r.recurrence.type = "monthly" -> r.recurrence.date = today.day
           [] OTHER -> FALSE

\* The evaluators are applied to the reminder and the instant drawn by
\* EvalInit, once each way.
CallNextOccurrence ==
    /\ lastReq.op = "input"
    /\ lastReq' = [lastReq EXCEPT !.op = "NextOccurrence"]
    /\ resp' = Response(200, NextOccurrence(lastReq.body.reminder, lastReq.body.at))
    /\ UNCHANGED <<backend, families, reminders, completionEvents,
                   familyIDCounter, reminderIDCounter,
                   completionEventIDCounter, clock, procs>>

\* today = new Date(); today.setHours(0, 0, 0, 0)
CallIsDueToday ==
    LET now == lastReq.body.at
        today == Date(now.year, now.month, now.day, 0, 0, 0)
    IN /\ lastReq.op = "input"
       /\ lastReq' = [lastReq EXCEPT !.op = "isDueToday"]
       /\ resp' = Response(200, isDueToday(lastReq.body.reminder, today))
       /\ UNCHANGED <<backend, families, reminders, completionEvents,
                      familyIDCounter, reminderIDCounter,
                      completionEventIDCounter, clock, procs>>

EvalRecurrences ==
    {OnceP, DailyP}
    \cup {RecurrencePattern("weekly", days, 0, endDate) :
            days \in {<<"monday">>, <<"friday", "monday">>, <<"sunday">>,
                      <<"wednesday">>, <<"Monday">>, <<"MONDAY", "Friday">>},
            endDate \in {"", "2025-05-21T10:00:00Z", "next year"}}
    \cup {RecurrencePattern("monthly", <<>>, date, endDate) :
            date \in {1, 15, 21, 31},
            endDate \in {"", "2025-05-21T10:00:00Z"}}
    \cup {RecurrencePattern("daily", <<>>, 0, "2025-05-21T10:00:00Z")}

EvalReminders ==
    {NewReminder(RemID(1), "Trash", "", due, FamID(1), "Bob", rec) :
        due \in {"", "2025-05-21T10:00:00Z", "2026-01-01T12:00:00Z"},
        rec \in EvalRecurrences}

EvalDays ==
    {<<2025, 5, 14>>, <<2025, 5, 15>>, <<2025, 5, 19>>, <<2025, 5, 21>>,
     <<2025, 5, 22>>, <<2025, 5, 31>>, <<2025, 6, 30>>, <<2025, 12, 31>>,
     <<2026, 1, 31>>}

EvalTimes ==
    {Date(d[1], d[2], d[3], hour, 0, 0) : d \in EvalDays, hour \in {9, 10, 11, 12}}

EvalNext == CallNextOccurrence \/ CallIsDueToday

EvalInit ==
    /\ backend = "memory"
    /\ families = NewStorage.families
    /\ reminders = NewStorage.reminders
    /\ completionEvents = NewStorage.completionEvents
    /\ familyIDCounter = NewStorage.familyIDCounter
    /\ reminderIDCounter = NewStorage.reminderIDCounter
    /\ completionEventIDCounter = NewStorage.completionEventIDCounter
    /\ clock = 0
    /\ \E r \in EvalReminders, t \in EvalTimes :
         lastReq = [Request("input", r.id) EXCEPT !.body = [reminder |-> r, at |-> t]]
    /\ resp = Response(0, NoBody)
    /\ procs = [p \in Procs |-> IdleProc]

EvalSpec == EvalInit /\ [][EvalNext]_vars

-----------------------------------------------------------------------------
(* What the properties below read *)

\* the reminder GET /reminders/{id} returns
StoredReminder(id) == GetReminder(Store, id)

Pending(r) == ~r.completed /\ r.completed_at = NoTime
Done(r) == r.completed /\ r.completed_at # NoTime

\* lastReq is a PATCH of reminder id whose body holds a boolean "completed"
\* and that was answered 200
ToggleOf(req, rsp, id) ==
    /\ req.op = "PATCH"
    /\ req.id = id
    /\ req.completed # "none"
    /\ rsp.status = 200

\* C1: a PATCH carrying a boolean completed, on a reminder that is recurring
\* before and after it, leaves completed = false in the store and in the
\* response, whatever completed was before and whatever the boolean is.
C1_RecurringCompletedStaysFalse ==
    [][\A id \in DOMAIN reminders :
          (/\ ToggleOf(lastReq', resp', id)
           /\ IsRecurring(StoredReminder(id))
           /\ IsRecurring(StoredReminder(id)'))
          => /\ ~StoredReminder(id)'.completed
             /\ ~resp'.body.completed]_vars

C1_Witness ==
    /\ lastReq.op = "PATCH"
    /\ lastReq.keys = {"completed"}
    /\ lastReq.completed = "true"
    /\ resp.status = 200
    /\ lastReq.id \in DOMAIN reminders
    /\ IsRecurring(StoredReminder(lastReq.id))
    /\ StoredReminder(lastReq.id).completed_at = clock
    /\ ~resp.body.completed

\* C2: no stored reminder whose recurrence type is not "once" has
\* completed = true.
C2_NoRecurringReminderCompleted ==
    \A id \in DOMAIN reminders :
        IsRecurring(StoredReminder(id)) => ~StoredReminder(id).completed

\* C3: on a reminder recurring before and after the request, PATCH
\* completed=true stores completed_at = now and PATCH completed=false stores
\* completed_at = nil, whatever completed_at was, and the handler writes the
\* reminder to the store.
C3_RecurringCompletedAtFollowsToggle ==
    [][\A id \in DOMAIN reminders :
          (/\ ToggleOf(lastReq', resp', id)
           /\ IsRecurring(StoredReminder(id))
           /\ IsRecurring(StoredReminder(id)'))
          => /\ lastReq'.wrote
             /\ lastReq'.completed = "true" =>
                   /\ clock' = clock + 1
                   /\ StoredReminder(id)'.completed_at = clock'
             /\ lastReq'.completed = "false" =>
                   StoredReminder(id)'.completed_at = NoTime]_vars

C3_Witness ==
    /\ lastReq.op = "PATCH"
    /\ lastReq.keys = {"completed"}
    /\ lastReq.completed = "false"
    /\ lastReq.wrote
    /\ lastReq.id \in DOMAIN reminders
    /\ IsRecurring(StoredReminder(lastReq.id))
    /\ StoredReminder(lastReq.id).completed_at = NoTime
    /\ clock = MaxTime

\* C4: PATCH completed=true on a non-recurring reminder that is Pending moves
\* it to Done: stored reminder and response have completed = true and a
\* non-nil completed_at.
C4_PendingToDone ==
    [][\A id \in DOMAIN reminders :
          (/\ ToggleOf(lastReq', resp', id)
           /\ lastReq'.completed = "true"
           /\ ~IsRecurring(StoredReminder(id))
           /\ ~IsRecurring(StoredReminder(id)')
           /\ Pending(StoredReminder(id)))
          => /\ Done(StoredReminder(id)')
             /\ Done(resp'.body)]_vars

C4_Witness ==
    /\ lastReq.op = "PATCH"
    /\ lastReq.keys = {"completed"}
    /\ lastReq.completed = "true"
    /\ lastReq.wrote
    /\ lastReq.id \in DOMAIN reminders
    /\ ~IsRecurring(StoredReminder(lastReq.id))
    /\ Done(StoredReminder(lastReq.id))
    /\ StoredReminder(lastReq.id).completed_at = clock
    /\ Done(resp.body)

\* C5: PATCH completed=false on a non-recurring reminder with completed =
\* true stores completed = false and completed_at = nil; on a non-recurring
\* reminder with completed = false a body holding only completed=false
\* changes nothing and writes nothing.
C5_DoneToPending ==
    [][\A id \in DOMAIN reminders :
          (/\ ToggleOf(lastReq', resp', id)
           /\ lastReq'.completed = "false"
           /\ ~IsRecurring(StoredReminder(id))
           /\ ~IsRecurring(StoredReminder(id)'))
          => /\ StoredReminder(id).completed =>
                   /\ Pending(StoredReminder(id)')
                   /\ lastReq'.wrote
             /\ (~StoredReminder(id).completed /\ lastReq'.keys = {"completed"}) =>
                   /\ StoredReminder(id)' = StoredReminder(id)
                   /\ ~lastReq'.wrote]_vars

C5_Witness ==
    /\ lastReq.op = "PATCH"
    /\ lastReq.keys = {"completed"}
    /\ lastReq.completed = "false"
    /\ lastReq.wrote
    /\ lastReq.id \in DOMAIN reminders
    /\ ~IsRecurring(StoredReminder(lastReq.id))
    /\ Pending(StoredReminder(lastReq.id))
    /\ Pending(resp.body)

\* C6: every stored reminder whose recurrence type is "once" has
\* completed = true exactly when completed_at is non-nil.
C6_OnceIsPendingOrDone ==
    \A id \in DOMAIN reminders :
        ~IsRecurring(StoredReminder(id)) =>
            (StoredReminder(id).completed <=> StoredReminder(id).completed_at # NoTime)

\* C7: every PATCH whose body carries a boolean completed adds one event to
\* ListCompletionEvents of the patched reminder, on every backend.
C7_EveryToggleAppendsOneEvent ==
    [][\A id \in DOMAIN reminders :
          ToggleOf(lastReq', resp', id)
          => Cardinality(ListCompletionEvents(Store, id)')
               = Cardinality(ListCompletionEvents(Store, id)) + 1]_vars

\* C8: a stored completion event keeps its reminder_id, completed_by and
\* completed_at for as long as it is stored.
C8_StoredEventsNeverChange ==
    [][\A id \in DOMAIN completionEvents :
          id \in DOMAIN completionEvents'
          => completionEvents'[id] = completionEvents[id]]_vars

C10_EventNamesReminderAndMember ==
    [][\A id \in DOMAIN reminders :
          (ToggleOf(lastReq', resp', id) /\ "family_member" \notin lastReq'.keys)
          => /\ CevID(completionEventIDCounter + 1) \in DOMAIN completionEvents'
             /\ completionEvents'[CevID(completionEventIDCounter + 1)].reminder_id = id
             /\ completionEvents'[CevID(completionEventIDCounter + 1)].completed_by
                  = StoredReminder(id).family_member]_vars

C10_Witness ==
    /\ lastReq.op = "PATCH"
    /\ lastReq.completed # "none"
    /\ resp.status = 200
    /\ lastReq.id \in DOMAIN reminders
    /\ StoredReminder(lastReq.id).family_member = "Alice"
    /\ \E e \in ListCompletionEvents(Store, lastReq.id) :
          /\ e.completed_by = "Alice"
          /\ e.completed_at = clock

\* C11: PATCH completed=true on a non-recurring reminder that is Done leaves
\* completed = true and keeps the completed_at it had, in the store and in the
\* response, so a second such request leaves the reminder as the first did.
C11_MarkCompleteKeepsCompletedAt ==
    [][\A id \in DOMAIN reminders :
          (/\ ToggleOf(lastReq', resp', id)
           /\ lastReq'.completed = "true"
           /\ ~IsRecurring(StoredReminder(id))
           /\ ~IsRecurring(StoredReminder(id)')
           /\ Done(StoredReminder(id)))
          => /\ StoredReminder(id)'.completed
             /\ StoredReminder(id)'.completed_at = StoredReminder(id).completed_at
             /\ resp'.body.completed
             /\ resp'.body.completed_at = StoredReminder(id).completed_at]_vars

C11_Witness ==
    /\ lastReq.op = "PATCH"
    /\ lastReq.completed = "true"
    /\ resp.status = 200
    /\ lastReq.id \in DOMAIN reminders
    /\ ~IsRecurring(StoredReminder(lastReq.id))
    /\ StoredReminder(lastReq.id).completed
    /\ StoredReminder(lastReq.id).completed_at = 1
    /\ resp.body.completed_at = 1
    /\ clock = 2

\* the reminder left by the patch loop of goroutine a followed by that of
\* goroutine b, from the reminder a read
SerialPatches(a, b) ==
    PatchedReminder(PatchedReminder(procs[a].seen, procs[a].patch,
                                    procs[a].order, procs[a].now),
                    procs[b].patch, procs[b].order, procs[b].now)

\* C12: when two PATCH requests on one reminder have both been served, the
\* stored reminder is what the two patch loops leave when run one after the
\* other, in one of the two orders, from the reminder the first of them read.
C12_ConcurrentPatchesSerialize ==
    \A p, q \in Procs :
        (/\ p # q
         /\ procs[p].pc = "patched"
         /\ procs[q].pc = "patched"
         /\ procs[p].id = procs[q].id)
        => StoredReminder(procs[p].id) \in
             {SerialPatches(p, q), SerialPatches(q, p)}

\* C13: two calls of an id generator that have both returned, one on each
\* goroutine, have returned different ids.
C13_GeneratedIDsDiffer ==
    \A p, q \in Procs :
        (/\ p # q
         /\ procs[p].pc = "generated"
         /\ procs[q].pc = "generated")
        => procs[p].id # procs[q].id

\* C14: no Storage call lowers an id counter, so no id generator returns an
\* id again, also after the entity with the highest id is deleted.
C14_CountersNeverDecrease ==
    [][/\ familyIDCounter' >= familyIDCounter
       /\ reminderIDCounter' >= reminderIDCounter
       /\ completionEventIDCounter' >= completionEventIDCounter]_vars

\* C20: CreateReminder and CreateCompletionEvent of an entity whose id is
\* stored replace the stored entity: Get of the id returns the entity just
\* given, and the List result holds one entry for the id.
C20_CreateIsUpsertByID ==
    /\ (lastReq.op = "CreateReminder" /\ resp.status = 200)
          => /\ FoundReminders(Store, lastReq.id) = {resp.body}
             /\ ListedReminders(Store, lastReq.id) = 1
    /\ (lastReq.op = "CreateCompletionEvent" /\ resp.status = 200)
          => /\ FoundCompletionEvents(Store, lastReq.id) = {resp.body}
             /\ ListedCompletionEvents(Store, lastReq.id) = 1

\* C15: when a FileStorage or SQLiteStorage whose entities were all created
\* under generated ids is opened again on the same files, the three counters
\* are what they were, and the next id generated of each kind is the prefix
\* followed by the largest number issued plus one.
C15_CountersSurviveReopen ==
    [][lastReq'.op = "reopen"
       => /\ familyIDCounter' = familyIDCounter
          /\ reminderIDCounter' = reminderIDCounter
          /\ completionEventIDCounter' = completionEventIDCounter
          /\ GenerateFamilyID(Store)'.id = FamID(MaxNumericID(families, "fam") + 1)
          /\ GenerateReminderID(Store)'.id = RemID(MaxNumericID(reminders, "rem") + 1)
          /\ GenerateCompletionEventID(Store)'.id
                = CevID(MaxNumericID(completionEvents, "cev") + 1)]_vars

C15_Witness ==
    /\ lastReq.op = "reopen"
    /\ backend = "file"
    /\ familyIDCounter = MaxCounter
    /\ reminderIDCounter = MaxReminders
    /\ completionEventIDCounter = MaxTime

\* C16: a PATCH none of whose keys is a key of the switch holding a value of
\* the asserted type does not call Store.CreateReminder, leaves the stored
\* reminder as it was, and answers 200 with that reminder.
C16_NothingApplicableNothingWritten ==
    [][\A id \in DOMAIN reminders :
          (/\ lastReq'.op = "PATCH"
           /\ lastReq'.id = id
           /\ lastReq'.ok = {})
          => /\ ~lastReq'.wrote
             /\ StoredReminder(id)' = StoredReminder(id)
             /\ resp' = Response(200, StoredReminder(id))]_vars

C16_Witness ==
    /\ lastReq.op = "PATCH"
    /\ lastReq.keys = {"title", "completed"}
    /\ lastReq.ok = {}
    /\ ~lastReq.wrote
    /\ lastReq.id \in DOMAIN reminders
    /\ resp = Response(200, StoredReminder(lastReq.id))
    /\ StoredReminder(lastReq.id).description = "Tonight"

\* the keys C17 is about
PlainFields == {"title", "description", "due_date", "family_member"}

\* C17: a PATCH whose only key with a value of the asserted type is one of
\* title, description, due_date, family_member leaves every other field of
\* the stored reminder as it was, whatever unknown or wrong-typed keys come
\* with it, and answers with the reminder as stored.
C17_PlainFieldsApplyAlone ==
    [][\A id \in DOMAIN reminders, k \in PlainFields :
          (/\ lastReq'.op = "PATCH"
           /\ lastReq'.id = id
           /\ lastReq'.ok = {k})
          => /\ \A f \in (DOMAIN StoredReminder(id)) \ {k} :
                   StoredReminder(id)'[f] = StoredReminder(id)[f]
             /\ resp' = Response(200, StoredReminder(id)')]_vars

C17_Witness ==
    /\ lastReq.op = "PATCH"
    /\ lastReq.keys = {"title", "recurrence"}
    /\ lastReq.ok = {"title"}
    /\ lastReq.wrote
    /\ lastReq.id \in DOMAIN reminders
    /\ StoredReminder(lastReq.id).title = "Dishes"
    /\ StoredReminder(lastReq.id).due_date = "2026-01-01T12:00:00Z"
    /\ Done(StoredReminder(lastReq.id))

\* the store is left as it was
StoreUnchanged ==
    UNCHANGED <<families, reminders, completionEvents, familyIDCounter,
                reminderIDCounter, completionEventIDCounter>>

\* C18: POST /reminders whose family_id names no stored family, or whose
\* family_member is not among that family's members, is answered with a 4xx
\* status, stores nothing and leaves the reminder id counter as it was.
C18_UnknownFamilyOrMemberRejected ==
    [][(/\ lastReq'.op = "POST /reminders"
        /\ \/ lastReq'.body.family_id \notin DOMAIN families
           \/ \A i \in DOMAIN families[lastReq'.body.family_id].members :
                 families[lastReq'.body.family_id].members[i]
                    # lastReq'.body.family_member)
       => /\ resp'.status \in 400..499
          /\ StoreUnchanged]_vars

C18_Witness ==
    /\ lastReq.op = "POST /reminders"
    /\ lastReq.body.family_id \in DOMAIN families
    /\ lastReq.body.family_member = "Carol"
    /\ families[lastReq.body.family_id].name = "Smith"
    /\ lastReq.body.recurrence = DailyP
    /\ resp.status = 400
    /\ reminders = <<>>
    /\ reminderIDCounter = 0

\* the patterns C19 lists as invalid
ListedInvalid(rec) ==
    \/ rec.type = "weekly" /\ rec.days = <<>>
    \/ rec.type = "weekly" /\ \E i \in DOMAIN rec.days : ToLower(rec.days[i]) \notin Weekdays
    \/ rec.type = "monthly" /\ rec.date \notin 1..31
    \/ rec.type \notin {"", "once", "daily", "weekly", "monthly"}
    \/ rec.end_date \notin RFC3339Strings \cup {""}

\* C19: POST /reminders with a weekly pattern without days or with an
\* unrecognized weekday, a monthly pattern with date outside 1..31, an
\* unknown type or an unparseable end_date is answered 400 and stores
\* nothing; a reminder created from a pattern without a type has type "once".
C19_RecurrenceValidated ==
    [][lastReq'.op = "POST /reminders"
       => /\ ListedInvalid(lastReq'.body.recurrence)
             => resp'.status = 400 /\ StoreUnchanged
          /\ (resp'.status = 201 /\ lastReq'.body.recurrence.type = "")
             => /\ resp'.body.recurrence.type = "once"
                /\ GetReminder(Store', resp'.body.id).recurrence.type = "once"]_vars

C19_Witness ==
    /\ lastReq.op = "POST /reminders"
    /\ lastReq.body.family_id \in DOMAIN families
    /\ lastReq.body.family_member = "Carol"
    /\ families[lastReq.body.family_id].name = "Jones"
    /\ lastReq.body.recurrence = MonthlyP(32)
    /\ resp.status = 400
    /\ reminders = <<>>
    /\ reminderIDCounter = 0

\* C21: on every backend and for each entity kind, Get of the id of an
\* entity just created returns that entity, and Get of an id just deleted
\* finds nothing.
C21_GetAfterCreateAndDelete ==
    /\ (lastReq.op = "CreateFamily" /\ resp.status = 200)
          => FoundFamilies(Store, lastReq.id) = {resp.body}
    /\ (lastReq.op = "CreateReminder" /\ resp.status = 200)
          => FoundReminders(Store, lastReq.id) = {resp.body}
    /\ (lastReq.op = "CreateCompletionEvent" /\ resp.status = 200)
          => FoundCompletionEvents(Store, lastReq.id) = {resp.body}
    /\ (lastReq.op = "DeleteFamily" /\ resp.status = 200)
          => FoundFamilies(Store, lastReq.id) = {}
    /\ (lastReq.op = "DeleteReminder" /\ resp.status = 200)
          => FoundReminders(Store, lastReq.id) = {}
    /\ (lastReq.op = "DeleteCompletionEvent" /\ resp.status = 200)
          => FoundCompletionEvents(Store, lastReq.id) = {}

\* C22: ListCompletionEvents(reminderID) holds every stored event whose
\* reminder_id is reminderID and no other event, and is empty when no stored
\* event names the reminder, whether or not the reminder is stored.
C22_ListCompletionEventsByReminder ==
    \A rid \in CrudReminderIDs \cup {RemID(3)} :
        /\ \A e \in ListCompletionEvents(Store, rid) :
              /\ e.reminder_id = rid
              /\ \E k \in DOMAIN completionEvents : completionEvents[k] = e
        /\ \A k \in DOMAIN completionEvents :
              completionEvents[k].reminder_id = rid
                 => completionEvents[k] \in ListCompletionEvents(Store, rid)
        /\ (\A k \in DOMAIN completionEvents : completionEvents[k].reminder_id # rid)
              => ListCompletionEvents(Store, rid) = {}

C22_Witness ==
    /\ lastReq.op = "CreateCompletionEvent"
    /\ ListCompletionEvents(Store, RemID(1)) = {CompletionEvent(CevID(1), RemID(1))}
    /\ ListCompletionEvents(Store, RemID(2)) = {CompletionEvent(CevID(2), RemID(2))}
    /\ ListCompletionEvents(Store, RemID(3)) = {}
    /\ FoundReminders(Store, RemID(2)) = {}

\* C23: DeleteFamily leaves the reminders and completion events as they
\* were, and DeleteReminder leaves the completion events as they were.
C23_DeletesDoNotCascade ==
    [][/\ lastReq'.op = "DeleteFamily"
          => /\ reminders' = reminders
             /\ completionEvents' = completionEvents
       /\ lastReq'.op = "DeleteReminder"
          => /\ completionEvents' = completionEvents
             /\ families' = families]_vars

C23_Witness ==
    /\ backend = "mongo"
    /\ lastReq.op = "DeleteFamily"
    /\ resp.status = 200
    /\ FoundFamilies(Store, lastReq.id) = {}
    /\ \E k \in DOMAIN reminders : reminders[k].family_id = lastReq.id
    /\ \E k \in DOMAIN completionEvents :
          FoundReminders(Store, completionEvents[k].reminder_id) # {}

\* C24: on SQLiteStorage the reminder GetReminder returns after
\* CreateReminder has the recurrence end_date that was given, empty or not.
C24_EndDateRoundTrips ==
    (backend = "sqlite" /\ lastReq.op = "CreateReminder")
       => \A r \in FoundReminders(Store, lastReq.id) :
             r.recurrence.end_date = resp.body.recurrence.end_date

\* C25: deleting a family, reminder or completion event whose id is not
\* stored returns an error, on every backend.
C25_DeleteOfUnknownIDFails ==
    [][/\ (lastReq'.op = "DeleteFamily" /\ FoundFamilies(Store, lastReq'.id) = {})
          => resp'.status # 200
       /\ (lastReq'.op = "DeleteReminder" /\ FoundReminders(Store, lastReq'.id) = {})
          => resp'.status # 200
       /\ (lastReq'.op = "DeleteCompletionEvent"
             /\ FoundCompletionEvents(Store, lastReq'.id) = {})
          => resp'.status # 200]_vars

\* the reminder and the instant the evaluator was called with
EvalReminder == lastReq.body.reminder
EvalAt == lastReq.body.at

LowerWeekday(t) == ToLower(WeekdayString(t))

\* C26: for a recurring reminder of any type, NextOccurrence returns none
\* when `after` is later than the pattern's parseable end_date.
C26_NoneAfterEndDate ==
    (/\ lastReq.op = "NextOccurrence"
     /\ EvalReminder.recurrence.type # "once"
     /\ EvalReminder.recurrence.end_date \in RFC3339Strings
     /\ Seconds(EvalAt) > Seconds(ParseTime(EvalReminder.recurrence.end_date)))
       => resp.body = {}

C26_Witness ==
    /\ lastReq.op = "NextOccurrence"
    /\ EvalReminder.recurrence =
          RecurrencePattern("weekly", <<"monday">>, 0, "2025-05-21T10:00:00Z")
    /\ EvalAt = Date(2025, 5, 21, 11, 0, 0)
    /\ resp.body = {}

C28_WeekdayCaseInsensitive ==
    (/\ lastReq.op = "NextOccurrence"
     /\ EvalReminder.recurrence.type = "weekly"
     /\ \A k \in DOMAIN EvalReminder.recurrence.days :
           isValidWeekday(EvalReminder.recurrence.days[k]))
       => resp.body =
             NextOccurrence(
                [EvalReminder EXCEPT !.recurrence.days =
                    [k \in DOMAIN @ |-> ToLower(@[k])]],
                EvalAt)

\* C29: for a monthly reminder, NextOccurrence(after) is a time strictly
\* after `after`.
C29_MonthlyStrictlyAfter ==
    (/\ lastReq.op = "NextOccurrence"
     /\ EvalReminder.recurrence.type = "monthly"
     /\ ~PastEndDate(EvalReminder, EvalAt))
       => /\ resp.body # {}
          /\ \A t \in resp.body : Seconds(t) > Seconds(EvalAt)

\* C30: for a weekly reminder, isDueToday is true exactly when the lowercase
\* weekday name of the day is in recurrence.days, whatever the due date.
C30_WeeklyDueOnListedWeekdays ==
    (/\ lastReq.op = "isDueToday"
     /\ EvalReminder.recurrence.type = "weekly")
       => resp.body = (LowerWeekday(EvalAt) \in Range(EvalReminder.recurrence.days))

\* C31: a daily, weekly or monthly reminder with a parseable end_date is not
\* reported due by isDueToday on a day that begins after end_date.
C31_NotDueAfterEndDate ==
    (/\ lastReq.op = "isDueToday"
     /\ EvalReminder.recurrence.type \in {"daily", "weekly", "monthly"}
     /\ EvalReminder.recurrence.end_date \in RFC3339Strings
     /\ DayNumber(EvalAt.year, EvalAt.month, EvalAt.day) * 86400
           > Seconds(ParseTime(EvalReminder.recurrence.end_date)))
       => resp.body = FALSE

\* C38: an occurrence NextOccurrence returns for a weekly or monthly
\* reminder with a parseable end_date is at or before end_date.
C38_OccurrenceWithinEndDate ==
    (/\ lastReq.op = "NextOccurrence"
     /\ EvalReminder.recurrence.type \in {"weekly", "monthly"}
     /\ EvalReminder.recurrence.end_date \in RFC3339Strings)
       => \A t \in resp.body :
             Seconds(t) <= Seconds(ParseTime(EvalReminder.recurrence.end_date))

\* C39: the occurrence NextOccurrence returns for a monthly reminder with
\* date d in 1..31 falls on day d of its month.
C39_MonthlyOnDayOfMonth ==
    (/\ lastReq.op = "NextOccurrence"
     /\ EvalReminder.recurrence.type = "monthly"
     /\ EvalReminder.recurrence.date \in 1..31)
       => \A t \in resp.body : t.day = EvalReminder.recurrence.date

\* C33: a PATCH whose completion event cannot be stored is answered 500,
\* does not call Store.CreateReminder and leaves the stored reminders, and
\* the rest of the store, as they were.
C33_FailedEventAbortsPatch ==
    [][(lastReq'.op = "PATCH" /\ resp'.status = 500)
       => /\ ~lastReq'.wrote
          /\ reminders' = reminders
          /\ completionEvents' = completionEvents]_vars

C33_Witness ==
    /\ lastReq.op = "PATCH"
    /\ lastReq.ok = {"title", "completed"}
    /\ resp.status = 500
    /\ ~lastReq.wrote
    /\ StoredReminder(lastReq.id).title = "Trash"
    /\ Pending(StoredReminder(lastReq.id))

\* C34: a POST /completion-events refused for a missing reminder_id or
\* completed_by stores no event and leaves the completion-event id counter
\* at the value it had.
C34_RejectedEventLeavesNoState ==
    [][(lastReq'.op = "POST /completion-events" /\ resp'.status = 400)
       => /\ completionEvents' = completionEvents
          /\ completionEventIDCounter' = completionEventIDCounter]_vars

\* what a PATCH of reminder id with the body patch stores and emits when its
\* keys are visited in the given order
PatchOutcome(id, patch, order) ==
    LET h0 == [r |-> GetReminder(Store, id), updated |-> FALSE,
               st |-> Store, failed |-> FALSE]
        h == PatchLoop(h0, patch, order, clock + 1, FALSE)
    IN [r |-> h.r, events |-> h.st.completionEvents]

\* C35: from one state, a PATCH carrying `completed` together with
\* `recurrence` or `family_member` stores the same reminder and emits the
\* same event in whichever order its keys are processed.
C35_PatchOrderIndependent ==
    \A id \in DOMAIN reminders, patch \in FaultPatches :
       ("completed" \in Present(patch)
          /\ Present(patch) \cap {"recurrence", "family_member"} # {})
       => \A o1, o2 \in Orders(Present(patch)) :
             PatchOutcome(id, patch, o1) = PatchOutcome(id, patch, o2)

\* C37: every stored reminder has a recurrence pattern creation validation
\* accepts.
C37_StoredRecurrenceValid ==
    \A id \in DOMAIN reminders : ValidRecurrence(StoredReminder(id).recurrence)

\* the store MemoryStorage holds after the call req made on the store st,
\* e being the entity a Create was given
MemoryStorageCall(st, req, e) ==
    CASE req.op = "CreateReminder" ->
           [st EXCEPT !.reminders = Put(@, req.id, e)]
      [] req.op = "DeleteReminder" ->
           [st EXCEPT !.reminders = Remove(@, req.id)]
      [] req.op = "CreateCompletionEvent" ->
           [st EXCEPT !.completionEvents = Put(@, req.id, e)]
      [] req.op = "DeleteCompletionEvent" ->
           [st EXCEPT !.completionEvents = Remove(@, req.id)]
      [] req.op = "GenerateID" ->
           SetCounter(st, req.id[1], GetCounter(st, req.id[1]) + 1)
      [] OTHER -> st

\* C32: each call of the Storage interface leaves FileStorage with what
\* MemoryStorage holds after the same call on the same contents, counters
\* included, so that every later Get, List and counter read agrees.
C32_FileStorageAsMemoryStorage ==
    [][backend = "file" => Store' = MemoryStorageCall(Store, lastReq', resp'.body)]_vars

\* C36: in the handlers guarded by Mu, a goroutine that has left its handler
\* has released Mu: Mu is locked only on behalf of a goroutine that is still
\* inside a handler and will unlock it, so a request waiting at Mu.Lock() is
\* not left waiting forever.
C36_ReturnedHandlerReleasedMu ==
    \A p \in Procs : procs[p].mu => procs[p].pc \in MuRunning

====
